---- MODULE Spec2Model ----
(***************************************************************************)
(* Model of the short-code resolution subsystem of the URL shortener:      *)
(* the URL service (backend/internal/core/services/url.go), the GORM URL   *)
(* and click repositories, the Redis cache adapter and the HTTP handlers   *)
(* CreateShortURL and RedirectURL.  Every service call runs in a slot of   *)
(* `calls`; a call is split at its store and cache round trips, so that    *)
(* concurrent requests interleave exactly where the Go code can.           *)
(***************************************************************************)
EXTENDS Integers, Sequences, FiniteSets, TLC

VARIABLES
    short_urls,     \* table short_urls: sequence of rows, the row id is the index
    clicks,         \* table clicks: sequence of rows
    cache,          \* Redis keys url:{code}
    unique_clicks,  \* Redis sets unique_clicks:{id}
    trigger,        \* whether the schema carries the increment_url_click_count trigger
    now,            \* wall clock
    calls,          \* the requests in flight, one per slot
    started,        \* number of requests started so far
    rate_limits,    \* Redis counters of the rate limiter, by key
    passed,         \* history: per key, the requests of the key's current window
                    \* handed to the next handler with no cache command failing
    deactivated,    \* history: ids whose deactivation has returned and that no
                    \* later request asked to activate
    sessions,       \* Redis keys session:{token}: the user id stored for a token
    logged_out      \* history: the refresh tokens issued to a user before a
                    \* Logout of that user returned

vars == <<short_urls, clicks, cache, unique_clicks, trigger, now, calls, started,
          rate_limits, passed, deactivated, sessions, logged_out>>

----------------------------------------------------------------------------
(* Bounds of the model *)

MaxCalls == 3       \* requests started in one behaviour
MaxRows == 3        \* rows the short_urls table can hold
MaxRand == 1        \* largest index the random source yields for the last character
MaxTime == 2        \* last instant of the wall clock
MaxClicks == 2      \* rows the clicks table can hold
RequestsPerWindow == 1  \* RateLimitConfig.RequestsPerWindow of the limiter modelled
SweepLimit == 1     \* per-sweep limit of the periodic sweep, scaled down from 100

Slots == {"s1", "s2"}
Users == {1, 2}

----------------------------------------------------------------------------
(* Program constants *)

shortCodeChars ==
    << "a","b","c","d","e","f","g","h","i","j","k","l","m",
       "n","o","p","q","r","s","t","u","v","w","x","y","z",
       "A","B","C","D","E","F","G","H","I","J","K","L","M",
       "N","O","P","Q","R","S","T","U","V","W","X","Y","Z",
       "0","1","2","3","4","5","6","7","8","9" >>
shortCodeLength == 6
maxRetries == 10

----------------------------------------------------------------------------
(* Errors: an error is the chain of messages fmt.Errorf("...: %w") builds,  *)
(* outermost first; a sentinel of domain/errors.go is a chain of length 1.  *)

nil == << >>
ErrShortURLNotFound == <<"short URL not found">>
ErrURLNotFound == <<"URL not found">>
ErrShortCodeExists == <<"short code already exists">>
ErrInvalidURL == <<"invalid URL format">>
ErrUnauthorized == <<"unauthorized">>
ErrInvalidRequest == <<"invalid request">>
ErrInvalidShortCode == <<"invalid short code">>
ErrStore == <<"store error">>
ErrRetriesExhausted == <<"failed to generate unique short code after 10 retries">>
Wrap(msg, err) == <<msg>> \o err

----------------------------------------------------------------------------
(* Values *)

NULL == -1                      \* a nil *time.Time
NilPassword == << -1 >>         \* a nil *string
NoRow == [ID |-> 0]             \* a nil *domain.ShortURL
NoEntry == [url |-> "", user_id |-> 0]
NoPatch == [Title |-> << >>, IsActive |-> << >>, ExpiresAt |-> << >>]
                                \* a nil pointer of a request is << >>, a set one <<v>>
NoReq == [OriginalURL |-> "", UserID |-> 0, CustomAlias |-> << >>,
          Password |-> << >>, ExpiresAt |-> NULL]

\* a URL string stands for the scheme url.Parse finds in it
Scheme(u) ==
    CASE u = "https://a" -> "https"
      [] u = "http://b" -> "http"
      [] u = "ftp://c" -> "ftp"
      [] OTHER -> ""

IdleCall ==
    [op |-> "idle", pc |-> "idle", id |-> 0, uid |-> 0, code |-> << >>,
     req |-> NoReq, patch |-> NoPatch, rec |-> NoRow, password |-> << >>,
     batch |-> << >>, i |-> 0, err |-> nil, status |-> 0,
     key |-> "", ip |-> "", unique |-> FALSE, served |-> 0,
     \* history of the call, read by the properties only
     checks |-> 0, collisions |-> 0, drawn |-> << >>, rejected |-> FALSE,
     cached |-> "", guard |-> FALSE, delta |-> 0, after_delete |-> FALSE,
     seen |-> << >>, failed |-> {}, path |-> "",
     token |-> [UserID |-> 0, Serial |-> 0, Signed |-> FALSE], after_logout |-> FALSE]

----------------------------------------------------------------------------
(* URL repository (GORM over PostgreSQL), as operators on the table *)

RowIds(tbl) == 1..Len(tbl)

\* soft-delete scope of GORM: every query on the model adds deleted_at IS NULL
Live(tbl) == {k \in RowIds(tbl) : ~tbl[k].Deleted}

ExistsByShortCode(tbl, shortCode) ==
    \E k \in Live(tbl) : tbl[k].ShortCode = shortCode

\* a table without the unique index on short_code
isDuplicateKey_NoIndex(tbl, shortCode) == FALSE

\* the unique index on short_code covers every row, soft-deleted ones too
isDuplicateKey(tbl, shortCode) ==
    \E k \in RowIds(tbl) : tbl[k].ShortCode = shortCode

GetByID(tbl, id) ==
    IF id \in Live(tbl) THEN tbl[id] ELSE NoRow

Min(S) == CHOOSE x \in S : \A y \in S : x <= y

GetByShortCode(tbl, shortCode) ==
    LET found == {k \in Live(tbl) : tbl[k].ShortCode = shortCode}
    IN  IF found = {} THEN NoRow ELSE tbl[Min(found)]

\* the lookup without the expiry condition
GetActiveByShortCode_NoExpiry(tbl, shortCode, t) ==
    LET found == {k \in Live(tbl) : tbl[k].ShortCode = shortCode /\ tbl[k].IsActive}
    IN  IF found = {} THEN NoRow ELSE tbl[Min(found)]

GetActiveByShortCode(tbl, shortCode, t) ==
    LET found == {k \in Live(tbl) :
                    /\ tbl[k].ShortCode = shortCode
                    /\ tbl[k].IsActive
                    /\ (tbl[k].ExpiresAt = NULL \/ tbl[k].ExpiresAt > t)}
    IN  IF found = {} THEN NoRow ELSE tbl[Min(found)]

\* INSERT: the store assigns the next id
Create(tbl, row) == Append(tbl, [row EXCEPT !.ID = Len(tbl) + 1])

\* soft delete: UPDATE short_urls SET deleted_at = now WHERE id = ? AND deleted_at IS NULL
Delete(tbl, id) == [tbl EXCEPT ![id].Deleted = TRUE]

----------------------------------------------------------------------------
(* Cache adapter *)

\* SET url:{code}
CacheURL(c, shortCode, originalURL, userID) ==
    [k \in DOMAIN c \cup {shortCode} |->
        IF k = shortCode THEN [url |-> originalURL, user_id |-> userID] ELSE c[k]]

\* DEL url:{code}
InvalidateURL(c, shortCode) == [k \in DOMAIN c \ {shortCode} |-> c[k]]

\* GET url:{code}; an absent key is an error, reported here as NoEntry
GetCachedURL(c, shortCode) ==
    IF shortCode \in DOMAIN c THEN c[shortCode] ELSE NoEntry

----------------------------------------------------------------------------
(* Pure helpers of the URL service *)

isValidURL(u) == Scheme(u) \in {"http", "https"}

isValidShortCode(shortCode) ==
    /\ Len(shortCode) >= 3
    /\ Len(shortCode) <= 20
    /\ \A k \in 1..Len(shortCode) :
          \E j \in 1..Len(shortCodeChars) : shortCodeChars[j] = shortCode[k]

\* rand.Int per position; the model's random source yields index 0 for every
\* position but the last, and 0..MaxRand for the last
RandInts(pos) == IF pos = shortCodeLength THEN 0..MaxRand ELSE {0}

generateRandomShortCode ==
    { [k \in 1..shortCodeLength |-> shortCodeChars[num[k] + 1]] :
        num \in { f \in [1..shortCodeLength -> 0..MaxRand] :
                    \A k \in 1..shortCodeLength : f[k] \in RandInts(k) } }

\* hex digits of a byte without the leading zero
HexByte_NoPad(b) == IF b < 16 THEN << b >> ELSE << b \div 16, b % 16 >>

\* fmt.Sprintf("%x", password): two lower-case hex digits per byte
HexByte(b) == << b \div 16, b % 16 >>

RECURSIVE Sprintf_x(_)
Sprintf_x(s) ==
    IF s = << >> THEN << >> ELSE HexByte(Head(s)) \o Sprintf_x(Tail(s))

hashPassword(password) == Sprintf_x(password)

checkPassword(password, hashedPassword) == Sprintf_x(password) = hashedPassword

\* ShortenURLRequest.Validate
ValidateShorten(req) ==
    IF req.OriginalURL = "" THEN ErrInvalidURL
    ELSE IF req.UserID = 0 THEN ErrInvalidRequest
    ELSE nil

\* the error switch of CreateShortURL compares the error value itself
CreateShortURLStatus(err) ==
    CASE err = nil -> 201
      [] err = ErrInvalidURL -> 400
      [] err = ErrShortCodeExists -> 409
      [] err = ErrInvalidShortCode -> 400
      [] OTHER -> 500

----------------------------------------------------------------------------
(* Bookkeeping of calls *)

Free(p) == calls[p].pc \in {"idle", "done"} /\ started < MaxCalls

At(p, op, pc) == calls[p].op = op /\ calls[p].pc = pc

Put(p, c) == calls' = [calls EXCEPT ![p] = c]

dbUnchanged == UNCHANGED <<short_urls, clicks, trigger>>
cacheUnchanged == UNCHANGED <<cache, unique_clicks>>

----------------------------------------------------------------------------
(* CreateShortURL handler and urlService.ShortenURL *)

\* the request arrives: handler validation, then ShortenURL up to its first
\* store call
CreateShortURL(p, req) ==
    /\ Free(p)
    /\ started' = started + 1
    /\ LET c == [IdleCall EXCEPT !.op = "shorten", !.req = req, !.uid = req.UserID]
       IN  IF ValidateShorten(req) # nil
           THEN Put(p, [c EXCEPT !.pc = "done", !.err = ValidateShorten(req),
                                 !.status = 400])
           ELSE IF ~isValidURL(req.OriginalURL)
           THEN Put(p, [c EXCEPT !.pc = "done", !.err = ErrInvalidURL,
                                 !.status = CreateShortURLStatus(ErrInvalidURL)])
           ELSE Put(p, [c EXCEPT !.pc = "generate"])
    /\ UNCHANGED <<sessions, logged_out, rate_limits, passed,
                   short_urls, clicks, trigger, cache, unique_clicks, now, deactivated>>

\* generateUniqueShortCode, custom alias branch
generateUniqueShortCode_custom(p) ==
    /\ At(p, "shorten", "generate")
    /\ calls[p].req.CustomAlias # << >>
    /\ LET c == calls[p]
           customAlias == c.req.CustomAlias
           err == IF ~isValidShortCode(customAlias) THEN ErrInvalidShortCode
                  ELSE IF ExistsByShortCode(short_urls, customAlias)
                       THEN ErrShortCodeExists
                  ELSE nil
           werr == Wrap("failed to generate short code", err)
       IN  IF err # nil
           THEN Put(p, [c EXCEPT !.pc = "done", !.err = werr,
                                 !.status = CreateShortURLStatus(werr),
                                 !.checks = IF err = ErrShortCodeExists THEN 1 ELSE 0])
           ELSE Put(p, [c EXCEPT !.pc = "create", !.code = customAlias, !.checks = 1])
    /\ UNCHANGED <<sessions, logged_out, rate_limits, passed,
                   short_urls, clicks, trigger, cache, unique_clicks, now, started, deactivated>>

\* the retry loop with an off-by-one bound (i <= maxRetries)
generateUniqueShortCode_random_OffByOne(p) ==
    /\ At(p, "shorten", "generate")
    /\ calls[p].req.CustomAlias = << >>
    /\ LET c == calls[p]
           werr == Wrap("failed to generate short code",
                        ErrRetriesExhausted)
       IN  IF c.i <= maxRetries
           THEN \E shortCode \in generateRandomShortCode :
                  IF ~ExistsByShortCode(short_urls, shortCode)
                  THEN Put(p, [c EXCEPT !.pc = "create", !.code = shortCode,
                                        !.checks = @ + 1, !.drawn = shortCode])
                  ELSE Put(p, [c EXCEPT !.i = @ + 1,
                                        !.checks = @ + 1, !.collisions = @ + 1,
                                        !.drawn = shortCode])
           ELSE Put(p, [c EXCEPT !.pc = "done", !.err = werr,
                                 !.status = CreateShortURLStatus(werr)])
    /\ UNCHANGED <<sessions, logged_out, rate_limits, passed,
                   short_urls, clicks, trigger, cache, unique_clicks, now, started, deactivated>>

\* generateUniqueShortCode, random branch: one iteration of the retry loop,
\* or the exit of the loop once i reaches maxRetries
generateUniqueShortCode_random(p) ==
    /\ At(p, "shorten", "generate")
    /\ calls[p].req.CustomAlias = << >>
    /\ LET c == calls[p]
           werr == Wrap("failed to generate short code",
                        ErrRetriesExhausted)
       IN  IF c.i < maxRetries
           THEN \E shortCode \in generateRandomShortCode :
                  IF ~ExistsByShortCode(short_urls, shortCode)
                  THEN Put(p, [c EXCEPT !.pc = "create", !.code = shortCode,
                                        !.checks = @ + 1, !.drawn = shortCode])
                  ELSE Put(p, [c EXCEPT !.i = @ + 1,
                                        !.checks = @ + 1, !.collisions = @ + 1,
                                        !.drawn = shortCode])
           ELSE Put(p, [c EXCEPT !.pc = "done", !.err = werr,
                                 !.status = CreateShortURLStatus(werr)])
    /\ UNCHANGED <<sessions, logged_out, rate_limits, passed,
                   short_urls, clicks, trigger, cache, unique_clicks, now, started, deactivated>>

\* the record ShortenURL builds, and urlRepo.Create
NewShortURL(req, shortCode) ==
    [ID |-> 0, ShortCode |-> shortCode, OriginalURL |-> req.OriginalURL,
     UserID |-> req.UserID, Title |-> "",
     Password |-> IF req.Password # << >> THEN hashPassword(req.Password)
                  ELSE NilPassword,
     ExpiresAt |-> req.ExpiresAt, IsActive |-> TRUE, ClickCount |-> 0,
     Deleted |-> FALSE,
     Secret |-> req.Password]   \* history: the password as given at creation

ShortenURL_Create(p) ==
    /\ At(p, "shorten", "create")
    /\ LET c == calls[p]
           werr == Wrap("failed to create short URL", ErrShortCodeExists)
       IN  IF isDuplicateKey(short_urls, c.code)
           THEN /\ Put(p, [c EXCEPT !.pc = "done", !.err = werr,
                                    !.status = CreateShortURLStatus(werr),
                                    !.rejected = TRUE])
                /\ UNCHANGED short_urls
           ELSE /\ Len(short_urls) < MaxRows
                /\ short_urls' = Create(short_urls, NewShortURL(c.req, c.code))
                /\ Put(p, [c EXCEPT !.pc = "cache",
                                    !.rec = short_urls'[Len(short_urls')]])
    /\ UNCHANGED <<sessions, logged_out, rate_limits, passed,
                   clicks, trigger, cache, unique_clicks, now, started, deactivated>>

\* CacheURL after Create; a cache failure is logged only
ShortenURL_CacheURL(p) ==
    /\ At(p, "shorten", "cache")
    /\ LET c == calls[p]
       IN  /\ \E ok \in BOOLEAN :
                cache' = IF ok THEN CacheURL(cache, c.code, c.rec.OriginalURL, c.rec.UserID)
                         ELSE cache
           /\ Put(p, [c EXCEPT !.pc = "done", !.err = nil,
                               !.status = CreateShortURLStatus(nil)])
    /\ UNCHANGED <<sessions, logged_out, rate_limits, passed,
                   short_urls, clicks, trigger, unique_clicks, now, started, deactivated>>

----------------------------------------------------------------------------
(* urlService.UpdateURL *)

\* the fields UpdateURL copies from the request into the record it read
ApplyPatch(row, req) ==
    [row EXCEPT !.Title = IF req.Title # << >> THEN req.Title[1] ELSE @,
                !.IsActive = IF req.IsActive # << >> THEN req.IsActive[1] ELSE @,
                !.ExpiresAt = IF req.ExpiresAt # << >> THEN req.ExpiresAt[1] ELSE @]

\* db.Save on a live row: UPDATE of every column WHERE id = ?
Save(tbl, row) == [tbl EXCEPT ![row.ID] = row]

\* history: an activation request for the record ends the guard of the
\* resolutions in flight
Unguard(cs, id, req) ==
    [q \in Slots |->
        IF req.IsActive = <<TRUE>> /\ cs[q].op \in {"get", "redirect"} /\ cs[q].id = id
        THEN [cs[q] EXCEPT !.guard = FALSE] ELSE cs[q]]

\* the request arrives and UpdateURL reads the record (GetByID), checks the
\* owner and patches its copy
UpdateURL(p, id, userID, req) ==
    /\ Free(p)
    /\ started' = started + 1
    /\ LET c == [IdleCall EXCEPT !.op = "update", !.id = id, !.uid = userID,
                                 !.patch = req]
           shortURL == GetByID(short_urls, id)
           d == IF shortURL = NoRow
                THEN [c EXCEPT !.pc = "done", !.err = ErrShortURLNotFound]
                ELSE IF shortURL.UserID # userID
                THEN [c EXCEPT !.pc = "done", !.err = ErrUnauthorized]
                ELSE [c EXCEPT !.pc = "save", !.rec = ApplyPatch(shortURL, req),
                               !.code = shortURL.ShortCode]
       IN  calls' = [Unguard(calls, id, req) EXCEPT ![p] = d]
    /\ deactivated' = IF req.IsActive = <<TRUE>> THEN deactivated \ {id} ELSE deactivated
    /\ UNCHANGED <<sessions, logged_out, rate_limits, passed,
                   short_urls, clicks, trigger, cache, unique_clicks, now>>

\* urlRepo.Update.  When the row was soft-deleted meanwhile the UPDATE matches
\* no row and GORM's Save falls back, depending on its version, to nothing,
\* to an INSERT that fails on the primary key, or to an upsert of the record.
UpdateURL_Save(p) ==
    /\ At(p, "update", "save")
    /\ LET c == calls[p]
           werr == Wrap("failed to update URL", ErrShortCodeExists)
       IN  IF c.rec.ID \in Live(short_urls)
           THEN /\ short_urls' = Save(short_urls, c.rec)
                /\ Put(p, [c EXCEPT !.pc = "cache"])
           ELSE \E fallback \in {"none", "insert", "upsert"} :
                  CASE fallback = "none" ->
                         /\ UNCHANGED short_urls
                         /\ Put(p, [c EXCEPT !.pc = "cache"])
                    [] fallback = "insert" ->
                         /\ UNCHANGED short_urls
                         /\ Put(p, [c EXCEPT !.pc = "done", !.err = werr])
                    [] fallback = "upsert" ->
                         /\ short_urls' = Save(short_urls, c.rec)
                         /\ Put(p, [c EXCEPT !.pc = "cache"])
    /\ UNCHANGED <<sessions, logged_out, rate_limits, passed,
                   clicks, trigger, cache, unique_clicks, now, started, deactivated>>

\* history: some UpdateURL asking for is_active = true on the record is running
ActivationInFlight(id) ==
    \E q \in Slots : /\ calls[q].op = "update" /\ calls[q].pc # "done"
                     /\ calls[q].id = id /\ calls[q].patch.IsActive = <<TRUE>>

\* refresh the cache entry of an active record, drop that of an inactive one
UpdateURL_Cache(p) ==
    /\ At(p, "update", "cache")
    /\ LET c == calls[p]
       IN  /\ \E ok \in BOOLEAN :
                cache' = IF ~ok THEN cache
                         ELSE IF c.rec.IsActive
                         THEN CacheURL(cache, c.rec.ShortCode, c.rec.OriginalURL,
                                       c.rec.UserID)
                         ELSE InvalidateURL(cache, c.rec.ShortCode)
           /\ Put(p, [c EXCEPT !.pc = "done", !.err = nil])
           /\ deactivated' =
                IF c.patch.IsActive = <<FALSE>> /\ ~ActivationInFlight(c.id)
                THEN deactivated \cup {c.id} ELSE deactivated
    /\ UNCHANGED <<sessions, logged_out, rate_limits, passed,
                   short_urls, clicks, trigger, unique_clicks, now, started>>

----------------------------------------------------------------------------
(* urlService.DeleteURL *)

\* DeleteURL without the comparison of shortURL.UserID with userID
DeleteURL_NoOwnerCheck(p, id, userID) ==
    /\ Free(p)
    /\ started' = started + 1
    /\ LET c == [IdleCall EXCEPT !.op = "delete", !.id = id, !.uid = userID]
           shortURL == GetByID(short_urls, id)
       IN  IF shortURL = NoRow
           THEN Put(p, [c EXCEPT !.pc = "done", !.err = ErrShortURLNotFound])
           ELSE Put(p, [c EXCEPT !.pc = "delete", !.rec = shortURL,
                                 !.code = shortURL.ShortCode])
    /\ UNCHANGED <<sessions, logged_out, rate_limits, passed,
                   short_urls, clicks, trigger, cache, unique_clicks, now, deactivated>>

\* the request arrives and DeleteURL reads the record and checks the owner
DeleteURL(p, id, userID) ==
    /\ Free(p)
    /\ started' = started + 1
    /\ LET c == [IdleCall EXCEPT !.op = "delete", !.id = id, !.uid = userID]
           shortURL == GetByID(short_urls, id)
       IN  IF shortURL = NoRow
           THEN Put(p, [c EXCEPT !.pc = "done", !.err = ErrShortURLNotFound])
           ELSE IF shortURL.UserID # userID
           THEN Put(p, [c EXCEPT !.pc = "done", !.err = ErrUnauthorized])
           ELSE Put(p, [c EXCEPT !.pc = "delete", !.rec = shortURL,
                                 !.code = shortURL.ShortCode])
    /\ UNCHANGED <<sessions, logged_out, rate_limits, passed,
                   short_urls, clicks, trigger, cache, unique_clicks, now, deactivated>>

\* urlRepo.Delete: no row affected is ErrShortURLNotFound
DeleteURL_Delete(p) ==
    /\ At(p, "delete", "delete")
    /\ LET c == calls[p]
       IN  IF c.id \in Live(short_urls)
           THEN /\ short_urls' = Delete(short_urls, c.id)
                /\ Put(p, [c EXCEPT !.pc = "invalidate"])
           ELSE /\ UNCHANGED short_urls
                /\ Put(p, [c EXCEPT !.pc = "done",
                                    !.err = Wrap("failed to delete URL", ErrShortURLNotFound)])
    /\ UNCHANGED <<sessions, logged_out, rate_limits, passed,
                   clicks, trigger, cache, unique_clicks, now, started, deactivated>>

DeleteURL_Invalidate(p) ==
    /\ At(p, "delete", "invalidate")
    /\ LET c == calls[p]
       IN  /\ \E ok \in BOOLEAN :
                cache' = IF ok THEN InvalidateURL(cache, c.rec.ShortCode) ELSE cache
           /\ Put(p, [c EXCEPT !.pc = "done", !.err = nil])
    /\ UNCHANGED <<sessions, logged_out, rate_limits, passed,
                   short_urls, clicks, trigger, unique_clicks, now, started, deactivated>>

----------------------------------------------------------------------------
(* urlService.GetOriginalURL; RedirectURL runs the same steps and goes on *)

Resolving(p, pc) == calls[p].op \in {"get", "redirect"} /\ calls[p].pc = pc

\* the error switch of RedirectURL compares the error value itself
RedirectURLStatus(err) ==
    CASE err = ErrURLNotFound -> 404
      [] OTHER -> 500

\* GetOriginalURL returns shortURL (NoRow with ErrShortURLNotFound); in
\* RedirectURL the checks that need no further call follow at once: the
\* error switch, IsActive, and the presence of a password in the request
Return(c, shortURL) ==
    IF c.op = "get"
    THEN IF shortURL = NoRow
         THEN [c EXCEPT !.pc = "done", !.err = ErrShortURLNotFound]
         ELSE [c EXCEPT !.pc = "done", !.rec = shortURL, !.err = nil]
    ELSE IF shortURL = NoRow
         THEN [c EXCEPT !.pc = "done", !.err = ErrShortURLNotFound,
                        !.status = RedirectURLStatus(ErrShortURLNotFound)]
    ELSE IF ~shortURL.IsActive
         THEN [c EXCEPT !.pc = "done", !.rec = shortURL, !.status = 410]
    ELSE IF shortURL.Password # NilPassword /\ c.password = << >>
         THEN [c EXCEPT !.pc = "done", !.rec = shortURL, !.status = 401]
    ELSE IF shortURL.Password # NilPassword
         THEN [c EXCEPT !.pc = "validate", !.rec = shortURL]
    ELSE [c EXCEPT !.pc = "insert", !.rec = shortURL]

\* history: the id that holds the code, 0 when there is none
IdOf(shortCode) ==
    LET found == {k \in RowIds(short_urls) : short_urls[k].ShortCode = shortCode}
    IN  IF found = {} THEN 0 ELSE Min(found)

\* history: a DeleteURL for the record of the code has returned nil
DeleteReturned(shortCode) ==
    \E q \in Slots : /\ calls[q].op = "delete" /\ calls[q].pc = "done"
                     /\ calls[q].err = nil /\ calls[q].code = shortCode

\* the request arrives and GetOriginalURL asks the cache; a transport error
\* and an absent key both leave err # nil
Lookup(p, c, shortCode) ==
    \E ok \in BOOLEAN :
        LET entry == GetCachedURL(cache, shortCode)
            hit == ok /\ entry # NoEntry /\ entry.url # ""
        IN  Put(p, [c EXCEPT !.code = shortCode,
                             !.pc = IF hit THEN "db_hit" ELSE "db",
                             !.id = IdOf(shortCode),
                             !.guard = IdOf(shortCode) \in deactivated,
                             !.after_delete = DeleteReturned(shortCode),
                             !.cached = IF hit THEN "hit"
                                        ELSE IF ok THEN "miss" ELSE "error"])

GetOriginalURL(p, shortCode) ==
    /\ Free(p)
    /\ started' = started + 1
    /\ Lookup(p, [IdleCall EXCEPT !.op = "get"], shortCode)
    /\ UNCHANGED <<sessions, logged_out, rate_limits, passed,
                   short_urls, clicks, trigger, cache, unique_clicks, now, deactivated>>

\* history: what the store holds for the code at the read that decides a
\* resolution: the row with the code, and whether its expiry has passed
Seen(shortCode) ==
    LET id == IdOf(shortCode)
    IN  IF id = 0 THEN << >>
        ELSE << short_urls[id],
                short_urls[id].ExpiresAt # NULL /\ short_urls[id].ExpiresAt <= now >>

\* a cache hit answered without asking the store whether the record is active
GetOriginalURL_HitRead_TrustCache(p) ==
    /\ Resolving(p, "db_hit")
    /\ LET c == calls[p]
           shortURL == GetByShortCode(short_urls, c.code)
       IN  IF shortURL # NoRow
           THEN Put(p, Return([c EXCEPT !.seen = Seen(c.code)], shortURL))
           ELSE Put(p, [c EXCEPT !.pc = "db"])
    /\ UNCHANGED <<sessions, logged_out, rate_limits, passed,
                   short_urls, clicks, trigger, cache, unique_clicks, now, started, deactivated>>

\* after a cache hit the record is read from the store; found: returned
GetOriginalURL_HitRead(p) ==
    /\ Resolving(p, "db_hit")
    /\ LET c == calls[p]
           shortURL == GetActiveByShortCode(short_urls, c.code, now)
       IN  IF shortURL # NoRow
           THEN Put(p, Return([c EXCEPT !.seen = Seen(c.code)], shortURL))
           ELSE Put(p, [c EXCEPT !.pc = "db"])
    /\ UNCHANGED <<sessions, logged_out, rate_limits, passed,
                   short_urls, clicks, trigger, cache, unique_clicks, now, started, deactivated>>

\* the read after a miss, or after a hit whose store read failed
GetOriginalURL_Read(p) ==
    /\ Resolving(p, "db")
    /\ LET c == calls[p]
           shortURL == GetActiveByShortCode(short_urls, c.code, now)
       IN  IF shortURL = NoRow
           THEN Put(p, Return([c EXCEPT !.seen = Seen(c.code)], NoRow))
           ELSE Put(p, [c EXCEPT !.pc = "put", !.rec = shortURL, !.seen = Seen(c.code)])
    /\ UNCHANGED <<sessions, logged_out, rate_limits, passed,
                   short_urls, clicks, trigger, cache, unique_clicks, now, started, deactivated>>

\* write-back to the cache; a failure is logged only
GetOriginalURL_CacheURL(p) ==
    /\ Resolving(p, "put")
    /\ LET c == calls[p]
       IN  /\ \E ok \in BOOLEAN :
                cache' = IF ok THEN CacheURL(cache, c.code, c.rec.OriginalURL, c.rec.UserID)
                         ELSE cache
           /\ Put(p, Return(c, c.rec))
    /\ UNCHANGED <<sessions, logged_out, rate_limits, passed,
                   short_urls, clicks, trigger, unique_clicks, now, started, deactivated>>

----------------------------------------------------------------------------
(* urlService.RecordClick; RedirectURL runs the same steps and goes on *)

Recording(p, pc) == calls[p].op \in {"click", "redirect"} /\ calls[p].pc = pc

\* a handler that answers 500 when RecordClick returns an error
Recorded_SurfaceError(c, err) ==
    IF c.op = "click"
    THEN [c EXCEPT !.pc = "done", !.err = err]
    ELSE [c EXCEPT !.pc = "done", !.err = err,
                   !.status = IF err = nil THEN 301 ELSE 500]

\* RecordClick returns err; RedirectURL ignores it and redirects to the
\* destination of the record it resolved
Recorded(c, err) ==
    IF c.op = "click"
    THEN [c EXCEPT !.pc = "done", !.err = err]
    ELSE [c EXCEPT !.pc = "done", !.err = nil, !.status = 301]

\* UPDATE short_urls SET click_count = click_count + 1 WHERE id = ? of the
\* trigger increment_url_click_count: plain SQL, every row with the id
increment_click_count(tbl, id) ==
    IF id \in RowIds(tbl) THEN [tbl EXCEPT ![id].ClickCount = @ + 1] ELSE tbl

\* urlRepo.IncrementClickCount: the GORM update skips soft-deleted rows
IncrementClickCount(tbl, id) ==
    IF id \in Live(tbl) THEN [tbl EXCEPT ![id].ClickCount = @ + 1] ELSE tbl

\* clickRepo.Create: INSERT INTO clicks, which fires the trigger when the
\* schema has it
RecordClick_Create(p) ==
    /\ Recording(p, "insert")
    /\ LET c == calls[p]
       IN  \E ok \in BOOLEAN :
             IF ok /\ Len(clicks) < MaxClicks
             THEN /\ clicks' = Append(clicks, [ShortURLID |-> c.rec.ID, IPAddress |-> "ip1"])
                  /\ short_urls' = IF trigger THEN increment_click_count(short_urls, c.rec.ID)
                                   ELSE short_urls
                  /\ Put(p, [c EXCEPT !.pc = "incr",
                                      !.delta = @ + short_urls'[c.rec.ID].ClickCount
                                                  - short_urls[c.rec.ID].ClickCount])
             ELSE /\ UNCHANGED <<clicks, short_urls>>
                  /\ Put(p, Recorded(c, Wrap("failed to record click", ErrStore)))
    /\ UNCHANGED <<sessions, logged_out, rate_limits, passed,
                   trigger, cache, unique_clicks, now, started, deactivated>>

RecordClick_Increment(p) ==
    /\ Recording(p, "incr")
    /\ LET c == calls[p]
       IN  \E ok \in BOOLEAN :
             IF ok
             THEN /\ short_urls' = IncrementClickCount(short_urls, c.rec.ID)
                  /\ Put(p, [c EXCEPT !.pc = "unique",
                                      !.delta = @ + short_urls'[c.rec.ID].ClickCount
                                                  - short_urls[c.rec.ID].ClickCount])
             ELSE /\ UNCHANGED short_urls
                  /\ Put(p, Recorded(c, Wrap("failed to increment click count", ErrStore)))
    /\ UNCHANGED <<sessions, logged_out, rate_limits, passed,
                   clicks, trigger, cache, unique_clicks, now, started, deactivated>>

\* CacheUniqueClick under the key unique_clicks:{id}; its error is logged only
RecordClick_CacheUniqueClick(p) ==
    /\ Recording(p, "unique")
    /\ LET c == calls[p]
       IN  /\ \E ok \in BOOLEAN :
                unique_clicks' = IF ok THEN unique_clicks \cup {<<c.rec.ID, "ip1">>}
                                 ELSE unique_clicks
           /\ Put(p, Recorded(c, nil))
    /\ UNCHANGED <<sessions, logged_out, rate_limits, passed,
                   short_urls, clicks, trigger, cache, now, started, deactivated>>

\* a RecordClick call for a record resolved earlier
RecordClick(p, id) ==
    /\ Free(p)
    /\ id \in Live(short_urls)
    /\ started' = started + 1
    /\ Put(p, [IdleCall EXCEPT !.op = "click", !.pc = "insert", !.id = id,
                               !.rec = short_urls[id]])
    /\ UNCHANGED <<sessions, logged_out, rate_limits, passed,
                   short_urls, clicks, trigger, cache, unique_clicks, now, deactivated>>

----------------------------------------------------------------------------
(* urlService.CleanupExpiredURLs *)

expiredLimit == 100

RECURSIVE Rows(_, _)
Rows(tbl, ids) ==
    IF ids = {} THEN << >> ELSE <<tbl[Min(ids)]>> \o Rows(tbl, ids \ {Min(ids)})

FirstN(seq, n) == IF Len(seq) <= n THEN seq ELSE SubSeq(seq, 1, n)

\* WHERE expires_at IS NOT NULL AND expires_at <= now LIMIT limit
GetExpiredURLs(tbl, t, limit) ==
    FirstN(Rows(tbl, {k \in Live(tbl) :
                        tbl[k].ExpiresAt # NULL /\ tbl[k].ExpiresAt <= t}), limit)

\* the sweep starts and lists the expired records
CleanupExpiredURLs(p) ==
    /\ Free(p)
    /\ started' = started + 1
    /\ LET expiredURLs == GetExpiredURLs(short_urls, now, expiredLimit)
           c == [IdleCall EXCEPT !.op = "cleanup", !.batch = expiredURLs]
       IN  Put(p, [c EXCEPT !.pc = IF expiredURLs = << >> THEN "done" ELSE "sweep"])
    /\ UNCHANGED <<sessions, logged_out, rate_limits, passed,
                   short_urls, clicks, trigger, cache, unique_clicks, now, deactivated>>

\* url.IsActive = false; urlRepo.Update(url): the whole listed record is saved
CleanupExpiredURLs_Update(p) ==
    /\ At(p, "cleanup", "sweep")
    /\ LET c == calls[p]
           url == [Head(c.batch) EXCEPT !.IsActive = FALSE]
           next == [c EXCEPT !.batch = Tail(@),
                             !.pc = IF Tail(c.batch) = << >> THEN "done" ELSE "sweep"]
       IN  IF url.ID \in Live(short_urls)
           THEN /\ short_urls' = Save(short_urls, url)
                /\ Put(p, [c EXCEPT !.pc = "invalidate"])
           ELSE \E fallback \in {"none", "insert", "upsert"} :
                  CASE fallback = "none" ->
                         /\ UNCHANGED short_urls
                         /\ Put(p, [c EXCEPT !.pc = "invalidate"])
                    [] fallback = "insert" ->
                         /\ UNCHANGED short_urls
                         /\ Put(p, next)
                    [] fallback = "upsert" ->
                         /\ short_urls' = Save(short_urls, url)
                         /\ Put(p, [c EXCEPT !.pc = "invalidate"])
    /\ UNCHANGED <<sessions, logged_out, rate_limits, passed,
                   clicks, trigger, cache, unique_clicks, now, started, deactivated>>

\* the sweep that gives up at the first failing Update
CleanupExpiredURLs_UpdateFails_Abort(p) ==
    /\ At(p, "cleanup", "sweep")
    /\ LET c == calls[p]
       IN  Put(p, [c EXCEPT !.batch = << >>, !.pc = "done",
                            !.err = Wrap("failed to update short URL", ErrStore),
                            !.failed = @ \cup {Head(c.batch).ID}])
    /\ UNCHANGED <<sessions, logged_out, rate_limits, passed,
                   short_urls, clicks, trigger, cache, unique_clicks, now, started,
                   deactivated>>

\* urlRepo.Update returns an error: it is printed and the loop continues with
\* the next listed record
CleanupExpiredURLs_UpdateFails(p) ==
    /\ At(p, "cleanup", "sweep")
    /\ LET c == calls[p]
       IN  Put(p, [c EXCEPT !.batch = Tail(@),
                            !.pc = IF Tail(c.batch) = << >> THEN "done" ELSE "sweep",
                            !.failed = @ \cup {Head(c.batch).ID}])
    /\ UNCHANGED <<sessions, logged_out, rate_limits, passed,
                   short_urls, clicks, trigger, cache, unique_clicks, now, started,
                   deactivated>>

CleanupExpiredURLs_Invalidate(p) ==
    /\ At(p, "cleanup", "invalidate")
    /\ LET c == calls[p]
       IN  /\ \E ok \in BOOLEAN :
                cache' = IF ok THEN InvalidateURL(cache, Head(c.batch).ShortCode) ELSE cache
           /\ Put(p, [c EXCEPT !.batch = Tail(@),
                               !.pc = IF Tail(c.batch) = << >> THEN "done" ELSE "sweep"])
    /\ UNCHANGED <<sessions, logged_out, rate_limits, passed,
                   short_urls, clicks, trigger, unique_clicks, now, started, deactivated>>

\* time passes
Tick ==
    /\ now < MaxTime
    /\ now' = now + 1
    /\ UNCHANGED <<sessions, logged_out, rate_limits, passed,
                   short_urls, clicks, cache, unique_clicks, trigger, calls, started,
                   deactivated>>

----------------------------------------------------------------------------
(* RedirectURL handler and urlService.ValidatePassword *)

\* the request arrives with the password of its query string, and
\* GetOriginalURL asks the cache
RedirectURL(p, shortCode, password) ==
    /\ Free(p)
    /\ started' = started + 1
    /\ Lookup(p, [IdleCall EXCEPT !.op = "redirect", !.password = password], shortCode)
    /\ UNCHANGED <<sessions, logged_out, rate_limits, passed,
                   short_urls, clicks, trigger, cache, unique_clicks, now, deactivated>>

\* ValidatePassword reads the record again by its code
ValidatePassword(tbl, shortCode, password) ==
    LET shortURL == GetByShortCode(tbl, shortCode)
    IN  IF shortURL = NoRow THEN FALSE
        ELSE IF shortURL.Password = NilPassword THEN TRUE
        ELSE checkPassword(password, shortURL.Password)

RedirectURL_ValidatePassword(p) ==
    /\ At(p, "redirect", "validate")
    /\ LET c == calls[p]
       IN  IF ValidatePassword(short_urls, c.code, c.password)
           THEN Put(p, [c EXCEPT !.pc = "insert"])
           ELSE Put(p, [c EXCEPT !.pc = "done", !.status = 401])
    /\ UNCHANGED <<sessions, logged_out, rate_limits, passed,
                   short_urls, clicks, trigger, cache, unique_clicks, now, started, deactivated>>

----------------------------------------------------------------------------
(* Creation of short URLs under concurrent updates and deletes *)

Aliases == { <<"a", "b", "c">>, <<"a", "-">> }

ShortenRequests ==
    { [OriginalURL |-> u, UserID |-> 1, CustomAlias |-> a,
       Password |-> << >>, ExpiresAt |-> NULL] :
        u \in {"https://a", "ftp://c"}, a \in Aliases \cup {<< >>} }

TitlePatches == { [NoPatch EXCEPT !.Title = <<"t">>] }

InitShorten ==
    /\ short_urls = << >>
    /\ clicks = << >>
    /\ cache = << >>
    /\ unique_clicks = {}
    /\ trigger = FALSE
    /\ now = 0
    /\ calls = [p \in Slots |-> IdleCall]
    /\ started = 0
    /\ rate_limits = << >>
    /\ sessions = << >>
    /\ logged_out = {}
    /\ passed = << >>
    /\ deactivated = {}

NextShorten ==
    \E p \in Slots :
        \/ \E req \in ShortenRequests : CreateShortURL(p, req)
        \/ generateUniqueShortCode_custom(p)
        \/ generateUniqueShortCode_random(p)
        \/ ShortenURL_Create(p)
        \/ ShortenURL_CacheURL(p)
        \/ \E id \in 1..MaxRows, u \in Users, req \in TitlePatches : UpdateURL(p, id, u, req)
        \/ UpdateURL_Save(p)
        \/ UpdateURL_Cache(p)
        \/ \E id \in 1..MaxRows, u \in Users : DeleteURL(p, id, u)
        \/ DeleteURL_Delete(p)
        \/ DeleteURL_Invalidate(p)

SpecShorten == InitShorten /\ [][NextShorten]_vars

----------------------------------------------------------------------------
(* Properties of short-code creation *)

IsRandomShorten(p) == calls[p].op = "shorten" /\ calls[p].req.CustomAlias = << >>
IsCustomShorten(p) == calls[p].op = "shorten" /\ calls[p].req.CustomAlias # << >>

\* C1: in every reachable state no two non-deleted rows of short_urls have
\* the same short code, whatever the interleaving of ShortenURL (custom and
\* random), UpdateURL and DeleteURL.
C1_UniqueShortCode ==
    \A a, b \in Live(short_urls) :
        a # b => short_urls[a].ShortCode # short_urls[b].ShortCode

\* two live rows exist and a concurrent Create was turned down by the index
C1_Witness ==
    /\ Cardinality(Live(short_urls)) >= 2
    /\ \E p \in Slots : calls[p].op = "shorten" /\ calls[p].rejected

FreeCodes == {sc \in generateRandomShortCode : ~isDuplicateKey(short_urls, sc)}

\* C2: a random-path ShortenURL whose Create is rejected by the unique
\* constraint (another call took the code after the existence check) draws a
\* new code and retries within the 10-attempt bound instead of failing, as
\* long as a free code exists.
C2_RejectedCreateIsRetried ==
    \A p \in Slots :
        ( /\ IsRandomShorten(p)
          /\ calls[p].rejected
          /\ calls[p].checks < maxRetries
          /\ FreeCodes # {} )
        => ~(calls[p].pc = "done" /\ calls[p].err # nil)

\* the custom alias of the call was found taken, by the existence check or
\* by the unique constraint at Create
AliasTaken(p) ==
    /\ IsCustomShorten(p)
    /\ calls[p].pc = "done"
    /\ calls[p].err # nil
    /\ calls[p].err[Len(calls[p].err)] = ErrShortCodeExists[1]

\* C9: ShortenURL with a taken custom alias fails with the short-code-exists
\* error in the form CreateShortURL recognises (409 Conflict, not 500), is
\* not retried with another code and creates no record and no cache entry.
C9_TakenAliasIsConflict ==
    \A p \in Slots :
        AliasTaken(p) =>
            /\ calls[p].status = 409
            /\ calls[p].rec = NoRow
            /\ calls[p].checks <= 1

Exhausted(p) ==
    /\ IsRandomShorten(p)
    /\ calls[p].pc = "done"
    /\ calls[p].err = Wrap("failed to generate short code", ErrRetriesExhausted)

Generated(p) ==
    /\ IsRandomShorten(p)
    /\ \/ calls[p].pc \in {"create", "cache"}
       \/ calls[p].pc = "done" /\ (calls[p].err = nil \/ calls[p].rejected)

\* C10: random generation makes at most 10 existence checks; when the first
\* N drawn codes exist and N < 10 it returns the (N+1)-th drawn code; when
\* N >= 10 it fails after exactly 10 checks, no Create is issued and the
\* request ends without a further retry.
C10_RetryBound ==
    \A p \in Slots :
        /\ IsRandomShorten(p) => calls[p].checks <= maxRetries
        /\ Generated(p) =>
              /\ calls[p].collisions < maxRetries
              /\ calls[p].checks = calls[p].collisions + 1
              /\ calls[p].code = calls[p].drawn
        /\ Exhausted(p) =>
              /\ calls[p].collisions = maxRetries
              /\ calls[p].checks = maxRetries
              /\ calls[p].rec = NoRow
              /\ calls[p].status = 500

\* a call ran out of attempts with every random code taken
C10_Witness ==
    \E p \in Slots : Exhausted(p) /\ calls[p].checks = maxRetries

----------------------------------------------------------------------------
(* Resolution, click recording and the expiry sweep on stored records *)

\* the step in which UpdateURL or DeleteURL of user u arrives for the live
\* record id of another owner
ForeignCall(p) ==
    /\ calls'[p] # calls[p]
    /\ calls'[p].op \in {"update", "delete"}
    /\ calls[p].pc \in {"idle", "done"}
    /\ calls'[p].id \in Live(short_urls)
    /\ short_urls[calls'[p].id].UserID # calls'[p].uid

\* C11: UpdateURL and DeleteURL called with a userID that is not the
\* record's owner return ErrUnauthorized and leave the record (every field,
\* is_active and the deleted state included) and the cache entry of its code
\* as they were.
C11_ForeignCallChangesNothing ==
    [][\A p \in Slots :
          ForeignCall(p) =>
             /\ calls'[p].pc = "done"
             /\ calls'[p].err = ErrUnauthorized
             /\ short_urls' = short_urls
             /\ cache' = cache]_vars

\* user 2 was turned away by UpdateURL and by DeleteURL for a live, cached
\* record of user 1
C11_Witness ==
    \E p, q \in Slots, k \in Live(short_urls) :
        /\ calls[p].op = "update" /\ calls[p].id = k /\ calls[p].uid = 2
        /\ calls[p].err = ErrUnauthorized
        /\ calls[q].op = "delete" /\ calls[q].id = k /\ calls[q].uid = 2
        /\ calls[q].err = ErrUnauthorized
        /\ short_urls[k].UserID = 1
        /\ short_urls[k].ShortCode \in DOMAIN cache

RandomCode == [k \in 1..shortCodeLength |-> shortCodeChars[1]]

\* the table after ShortenURL for a random code without expiry and for the
\* alias "abc" expiring at instant 1, both by user 1 and both cached
StoredURLs ==
    << [NewShortURL([NoReq EXCEPT !.OriginalURL = "https://a", !.UserID = 1],
                    RandomCode) EXCEPT !.ID = 1],
       [NewShortURL([NoReq EXCEPT !.OriginalURL = "http://b", !.UserID = 1,
                                  !.ExpiresAt = 1],
                    <<"a", "b", "c">>) EXCEPT !.ID = 2] >>

Patches ==
    { [NoPatch EXCEPT !.Title = <<"t">>],
      [NoPatch EXCEPT !.IsActive = <<FALSE>>],
      [NoPatch EXCEPT !.IsActive = <<TRUE>>],
      [NoPatch EXCEPT !.ExpiresAt = <<MaxTime>>] }

InitResolve ==
    /\ short_urls = StoredURLs
    /\ clicks = << >>
    /\ cache = CacheURL(CacheURL(<< >>, StoredURLs[1].ShortCode, "https://a", 1),
                        StoredURLs[2].ShortCode, "http://b", 1)
    /\ unique_clicks = {}
    /\ trigger = FALSE
    /\ now = 0
    /\ calls = [p \in Slots |-> IdleCall]
    /\ started = 0
    /\ rate_limits = << >>
    /\ sessions = << >>
    /\ logged_out = {}
    /\ passed = << >>
    /\ deactivated = {}

NextResolve ==
    \/ Tick
    \/ \E p \in Slots :
        \/ \E k \in RowIds(short_urls) : GetOriginalURL(p, short_urls[k].ShortCode)
        \/ GetOriginalURL_HitRead(p)
        \/ GetOriginalURL_Read(p)
        \/ GetOriginalURL_CacheURL(p)
        \/ \E id \in RowIds(short_urls), req \in Patches : UpdateURL(p, id, 1, req)
        \/ UpdateURL_Save(p)
        \/ UpdateURL_Cache(p)
        \/ CleanupExpiredURLs(p)
        \/ CleanupExpiredURLs_Update(p)
        \/ CleanupExpiredURLs_Invalidate(p)

SpecResolve == InitResolve /\ [][NextResolve]_vars

----------------------------------------------------------------------------
(* Click recording next to updates and the expiry sweep; the clock stands   *)
(* at instant 1, where the alias "abc" has expired                          *)

InitClicks ==
    /\ short_urls = StoredURLs
    /\ clicks = << >>
    /\ cache = << >>
    /\ unique_clicks = {}
    /\ trigger \in BOOLEAN
    /\ now = 1
    /\ calls = [p \in Slots |-> IdleCall]
    /\ started = 0
    /\ rate_limits = << >>
    /\ sessions = << >>
    /\ logged_out = {}
    /\ passed = << >>
    /\ deactivated = {}

NextClicks ==
    \E p \in Slots :
        \/ \E id \in RowIds(short_urls) : RecordClick(p, id)
        \/ RecordClick_Create(p)
        \/ RecordClick_Increment(p)
        \/ RecordClick_CacheUniqueClick(p)
        \/ \E id \in RowIds(short_urls), req \in TitlePatches : UpdateURL(p, id, 1, req)
        \/ UpdateURL_Save(p)
        \/ UpdateURL_Cache(p)
        \/ CleanupExpiredURLs(p)
        \/ CleanupExpiredURLs_Update(p)
        \/ CleanupExpiredURLs_Invalidate(p)

SpecClicks == InitClicks /\ [][NextClicks]_vars

----------------------------------------------------------------------------
(* Properties of resolution *)

\* C3: once an UpdateURL that sets is_active = false has returned, a
\* GetOriginalURL for the code that starts afterwards returns no record
\* until an UpdateURL asking for is_active = true is issued, also when a
\* title-only UpdateURL, other resolutions or the sweep ran concurrently
\* with the deactivation.
C3_DeactivationIsStable ==
    \A p \in Slots :
        (calls[p].op = "get" /\ calls[p].pc = "done" /\ calls[p].guard)
        => calls[p].rec = NoRow

\* the step in which a resolution gets its answer from the store
Decides(p) ==
    /\ calls[p].op = "get"
    /\ calls[p].pc \in {"db_hit", "db"}
    /\ calls'[p].pc \in {"put", "done"}

\* C7: GetActiveByShortCode and GetOriginalURL never return a record whose
\* expires_at is at or before the current time, even though is_active is
\* still true, a cache entry exists and the sweep has not run.
C7_NoExpiredRecord ==
    [][\A p \in Slots :
          Decides(p) /\ calls'[p].rec # NoRow
          => \/ calls'[p].rec.ExpiresAt = NULL
             \/ calls'[p].rec.ExpiresAt > now]_vars

\* a resolution that hit the cache ended not found for a row that is still
\* active and cached but expired
C7_Witness ==
    \E p \in Slots, k \in Live(short_urls) :
        /\ calls[p].op = "get" /\ calls[p].pc = "done"
        /\ calls[p].cached = "hit" /\ calls[p].err = ErrShortURLNotFound
        /\ short_urls[k].ShortCode = calls[p].code
        /\ short_urls[k].IsActive
        /\ short_urls[k].ExpiresAt # NULL /\ short_urls[k].ExpiresAt <= now
        /\ calls[p].code \in DOMAIN cache

\* C8: the outcome of GetOriginalURL is the answer of the store, whether the
\* cache hit, missed, held a stale entry or failed, and whether or not the
\* write-back failed; a cache failure never makes the resolution fail.
C8_OutcomeFromStoreOnly ==
    [][\A p \in Slots :
          /\ Decides(p) =>
                /\ calls'[p].rec = GetActiveByShortCode(short_urls, calls[p].code, now)
                /\ calls'[p].err = IF calls'[p].rec = NoRow THEN ErrShortURLNotFound
                                   ELSE nil
          /\ (calls[p].op = "get" /\ calls[p].pc = "put" /\ calls'[p].pc = "done") =>
                calls'[p].rec = calls[p].rec /\ calls'[p].err = nil]_vars

\* resolutions of one code ended with the record after a cache error and
\* not found after a hit on a stale entry
C8_Witness ==
    \E p, q \in Slots :
        /\ calls[p].op = "get" /\ calls[p].pc = "done"
        /\ calls[p].cached = "error" /\ calls[p].rec # NoRow
        /\ calls[q].op = "get" /\ calls[q].pc = "done"
        /\ calls[q].cached = "hit" /\ calls[q].rec = NoRow
        /\ calls[q].code = calls[p].code

----------------------------------------------------------------------------
(* Properties of click accounting *)

\* C4: the stored click_count of a ShortURL never decreases, under any
\* interleaving of RecordClick with UpdateURL and CleanupExpiredURLs.
C4_ClickCountNeverDecreases ==
    [][\A k \in RowIds(short_urls) :
          short_urls'[k].ClickCount >= short_urls[k].ClickCount]_vars

\* C5: a RecordClick that returns nil has raised click_count of its
\* ShortURL by exactly 1, and one whose click insert fails has left it
\* unchanged.
C5_ClickRaisesCountByOne ==
    \A p \in Slots :
        (calls[p].op = "click" /\ calls[p].pc = "done") =>
            /\ calls[p].err = nil => calls[p].delta = 1
            /\ calls[p].err = Wrap("failed to record click", ErrStore)
                  => calls[p].delta = 0

----------------------------------------------------------------------------
(* Redirects of a password-protected code under concurrent delete, update  *)
(* and creation on the same code                                            *)

Passwords == { <<1, 17>>, <<17, 1>> }

\* the table after ShortenURL of user 1 with alias "abc" and password <<1, 17>>
ProtectedURLs ==
    << [NewShortURL([NoReq EXCEPT !.OriginalURL = "https://a", !.UserID = 1,
                                  !.CustomAlias = <<"a", "b", "c">>,
                                  !.Password = <<1, 17>>],
                    <<"a", "b", "c">>) EXCEPT !.ID = 1] >>

AliasRequests ==
    { [NoReq EXCEPT !.OriginalURL = "http://b", !.UserID = 2,
                    !.CustomAlias = a, !.Password = pw] :
        a \in { <<"a", "b", "c">>, <<"x", "y", "z">> }, pw \in {<< >>, <<17, 1>>} }

InitRedirect ==
    /\ short_urls = ProtectedURLs
    /\ clicks = << >>
    /\ cache = CacheURL(<< >>, <<"a", "b", "c">>, "https://a", 1)
    /\ unique_clicks = {}
    /\ trigger = FALSE
    /\ now = 0
    /\ calls = [p \in Slots |-> IdleCall]
    /\ started = 0
    /\ rate_limits = << >>
    /\ sessions = << >>
    /\ logged_out = {}
    /\ passed = << >>
    /\ deactivated = {}

NextRedirect ==
    \E p \in Slots :
        \/ \E pw \in Passwords \cup {<< >>} : RedirectURL(p, <<"a", "b", "c">>, pw)
        \/ GetOriginalURL_HitRead(p)
        \/ GetOriginalURL_Read(p)
        \/ GetOriginalURL_CacheURL(p)
        \/ RedirectURL_ValidatePassword(p)
        \/ RecordClick_Create(p)
        \/ RecordClick_Increment(p)
        \/ RecordClick_CacheUniqueClick(p)
        \/ \E req \in AliasRequests : CreateShortURL(p, req)
        \/ generateUniqueShortCode_custom(p)
        \/ ShortenURL_Create(p)
        \/ ShortenURL_CacheURL(p)
        \/ \E req \in TitlePatches : UpdateURL(p, 1, 1, req)
        \/ UpdateURL_Save(p)
        \/ UpdateURL_Cache(p)
        \/ DeleteURL(p, 1, 1)
        \/ DeleteURL_Delete(p)
        \/ DeleteURL_Invalidate(p)

SpecRedirect == InitRedirect /\ [][NextRedirect]_vars

\* C6: RedirectURL redirects to the destination of a record that has a
\* password only when the request carried the password set at creation; a
\* missing, empty or wrong password is answered 401 without a redirect, in
\* every interleaving with DeleteURL, UpdateURL and ShortenURL on the code.
C6_PasswordEnforced ==
    \A p \in Slots :
        ( /\ calls[p].op = "redirect" /\ calls[p].pc = "done"
          /\ calls[p].rec # NoRow
          /\ calls[p].rec.Password # NilPassword )
        => /\ calls[p].status = 301 =>
                calls[p].password # << >> /\ calls[p].password = calls[p].rec.Secret
           /\ (calls[p].password # calls[p].rec.Secret /\ calls[p].rec.IsActive)
                => calls[p].status = 401

\* one request was redirected with the right password and one with a wrong
\* password was turned down by ValidatePassword
C6_Witness ==
    \E p, q \in Slots :
        /\ calls[p].op = "redirect" /\ calls[p].pc = "done" /\ calls[p].status = 301
        /\ calls[p].rec.Password # NilPassword
        /\ calls[q].op = "redirect" /\ calls[q].pc = "done" /\ calls[q].status = 401
        /\ calls[q].password = <<17, 1>>

----------------------------------------------------------------------------
(* Properties of the redirect response *)

\* C12: the redirect response is sent without waiting for click recording:
\* while the click insert, the click-count increment or the unique-visitor
\* update of a redirect is still outstanding, its 301 has already been sent.
C12_RedirectBeforeRecordClick ==
    \A p \in Slots :
        (calls[p].op = "redirect" /\ calls[p].pc \in {"insert", "incr", "unique"})
        => calls[p].status = 301

\* the step in which RecordClick returns to RedirectURL
ClickReturns(p) ==
    /\ calls[p].op = "redirect"
    /\ calls[p].pc \in {"insert", "incr", "unique"}
    /\ calls'[p].pc = "done"

\* C13: for an accessible record RedirectURL redirects to the destination it
\* resolved whether RecordClick succeeded or failed at the click insert, at
\* IncrementClickCount or at CacheUniqueClick; a click-recording error
\* never becomes an error response.
C13_ClickErrorKeepsRedirect ==
    [][\A p \in Slots :
          ClickReturns(p) =>
             /\ calls'[p].status = 301
             /\ calls'[p].rec = calls[p].rec]_vars

\* one redirect was sent after its click recording failed in the store and
\* one after it was counted
C13_Witness ==
    \E p, q \in Slots :
        /\ calls[p].op = "redirect" /\ calls[p].pc = "done" /\ calls[p].status = 301
        /\ calls[p].delta = 0
        /\ calls[q].op = "redirect" /\ calls[q].pc = "done" /\ calls[q].status = 301
        /\ calls[q].delta = 1

\* C14: RedirectURL answers a code that has no active record with not-found
\* (a 4xx) and answers 5xx only when the store call failed: a missing
\* record is never reported as an internal error.
C14_MissingIsNotFound ==
    \A p \in Slots :
        ( /\ calls[p].op = "redirect" /\ calls[p].pc = "done"
          /\ calls[p].err = ErrShortURLNotFound )
        => calls[p].status \in 400..499

\* the outcome GetOriginalURL has for a code when the table holds no record
NoRecordOutcome(p) ==
    Return([IdleCall EXCEPT !.op = calls[p].op],
           GetActiveByShortCode(<< >>, calls[p].code, now))

\* C15: a resolution of a code whose record exists but is inactive or
\* expired ends with an outcome different from the one for a code that has
\* no record at all.
C15_GoneIsNotNotFound ==
    \A p \in Slots :
        ( /\ calls[p].op = "get" /\ calls[p].pc = "done"
          /\ calls[p].rec = NoRow
          /\ IdOf(calls[p].code) \in Live(short_urls) )
        => calls[p].err # NoRecordOutcome(p).err

----------------------------------------------------------------------------
(* CacheServiceImpl.CacheUniqueClick, one Redis command per step *)

ErrRedis == <<"redis error">>

\* SISMEMBER unique_clicks:{shortCode} ipAddress
CacheUniqueClick(p, shortCode, ipAddress) ==
    /\ Free(p)
    /\ started' = started + 1
    /\ LET c == [IdleCall EXCEPT !.op = "unique", !.id = shortCode, !.ip = ipAddress]
       IN  \E ok \in BOOLEAN :
             IF ~ok
             THEN Put(p, [c EXCEPT !.pc = "done", !.unique = FALSE, !.err = ErrRedis])
             ELSE IF <<shortCode, ipAddress>> \in unique_clicks
             THEN Put(p, [c EXCEPT !.pc = "done", !.unique = FALSE, !.err = nil])
             ELSE Put(p, [c EXCEPT !.pc = "sadd"])
    /\ UNCHANGED <<sessions, logged_out, rate_limits, passed,
                   short_urls, clicks, trigger, cache, unique_clicks, now, deactivated>>

\* SADD unique_clicks:{shortCode} ipAddress
CacheUniqueClick_SAdd(p) ==
    /\ At(p, "unique", "sadd")
    /\ LET c == calls[p]
       IN  \E ok \in BOOLEAN :
             IF ok
             THEN /\ unique_clicks' = unique_clicks \cup {<<c.id, c.ip>>}
                  /\ Put(p, [c EXCEPT !.pc = "expire"])
             ELSE /\ UNCHANGED unique_clicks
                  /\ Put(p, [c EXCEPT !.pc = "done", !.unique = FALSE, !.err = ErrRedis])
    /\ UNCHANGED <<sessions, logged_out, rate_limits, passed,
                   short_urls, clicks, trigger, cache, now, started, deactivated>>

\* EXPIRE unique_clicks:{shortCode} 24h; the call reports a first visit
\* also when the command fails
CacheUniqueClick_Expire(p) ==
    /\ At(p, "unique", "expire")
    /\ LET c == calls[p]
       IN  \E ok \in BOOLEAN :
             Put(p, [c EXCEPT !.pc = "done", !.unique = TRUE,
                              !.err = IF ok THEN nil
                                      ELSE Wrap("failed to set expiration", ErrRedis)])
    /\ UNCHANGED <<sessions, logged_out, rate_limits, passed,
                   short_urls, clicks, trigger, cache, unique_clicks, now, started,
                   deactivated>>

----------------------------------------------------------------------------
(* RateLimitMiddleware.Handler over CacheServiceImpl.IsRateLimited and       *)
(* IncrementRateLimit, one Redis command per step                            *)

NoCounter == [count |-> 0, ttl |-> FALSE]

\* GET key: the counter, NoCounter for a key that does not exist
Counter(rl, key) == IF key \in DOMAIN rl THEN rl[key] ELSE NoCounter

SetCounter(rl, key, v) ==
    [k \in DOMAIN rl \cup {key} |-> IF k = key THEN v ELSE rl[k]]

Passed(h, key) == IF key \in DOMAIN h THEN h[key] ELSE 0

\* next.ServeHTTP(w, r)
Serve(c) == [c EXCEPT !.pc = "done", !.served = @ + 1, !.status = 200]

\* a middleware that answers 500 when IncrementRateLimit returns an error
FailOpen_Closed(c, err) == [c EXCEPT !.pc = "done", !.err = err, !.status = 500]

\* IncrementRateLimit returned err: the request goes to the next handler
FailOpen(c, err) == Serve([c EXCEPT !.err = err])

\* history: a request served without any cache error is counted for its key
Count(h, key) == [k \in DOMAIN h \cup {key} |-> IF k = key THEN Passed(h, key) + 1 ELSE h[k]]

\* IsRateLimited: any error of GET, a missing key included, reads as "not
\* limited"; the stored counter always parses
IsRateLimited(rl, key, limit, ok) ==
    IF ~ok \/ key \notin DOMAIN rl THEN FALSE ELSE rl[key].count >= limit

\* the request arrives: skipped paths go straight to the next handler, the
\* others ask IsRateLimited
Handler(p, key, skip) ==
    /\ Free(p)
    /\ started' = started + 1
    /\ LET c == [IdleCall EXCEPT !.op = "limit", !.key = key]
       IN  IF skip
           THEN Put(p, Serve(c))
           ELSE \E ok \in BOOLEAN :
                  IF IsRateLimited(rate_limits, key, RequestsPerWindow, ok)
                  THEN Put(p, [c EXCEPT !.pc = "done", !.status = 429])
                  ELSE Put(p, [c EXCEPT !.pc = "incr",
                                        !.cached = IF ok THEN "" ELSE "error"])
    /\ UNCHANGED <<sessions, logged_out, rate_limits, passed,
                   short_urls, clicks, trigger, cache, unique_clicks, now, deactivated>>

\* IncrementRateLimit: INCR key; an error lets the request through
Handler_Incr(p) ==
    /\ At(p, "limit", "incr")
    /\ LET c == calls[p]
           count == Counter(rate_limits, c.key).count + 1
       IN  \E ok \in BOOLEAN :
             IF ~ok
             THEN /\ Put(p, FailOpen(c, ErrRedis))
                  /\ UNCHANGED <<rate_limits, passed>>
             ELSE /\ rate_limits' = SetCounter(rate_limits, c.key,
                                        [Counter(rate_limits, c.key) EXCEPT !.count = count])
                  /\ IF count = 1
                     THEN /\ Put(p, [c EXCEPT !.pc = "expire"])
                          /\ UNCHANGED passed
                     ELSE /\ Put(p, Serve(c))
                          /\ passed' = IF c.cached # "error" THEN Count(passed, c.key) ELSE passed
    /\ UNCHANGED <<sessions, logged_out,
                   short_urls, clicks, trigger, cache, unique_clicks, now, started,
                   deactivated>>

\* EXPIRE key window, only after the increment that gave 1; an error lets
\* the request through and leaves the key without expiry
Handler_Expire(p) ==
    /\ At(p, "limit", "expire")
    /\ LET c == calls[p]
       IN  \E ok \in BOOLEAN :
             IF ok
             THEN /\ rate_limits' = SetCounter(rate_limits, c.key,
                                        [Counter(rate_limits, c.key) EXCEPT !.ttl = TRUE])
                  /\ Put(p, Serve(c))
                  /\ passed' = IF c.cached # "error" THEN Count(passed, c.key) ELSE passed
             ELSE /\ Put(p, FailOpen(c, Wrap("failed to set expiration", ErrRedis)))
                  /\ UNCHANGED <<rate_limits, passed>>
    /\ UNCHANGED <<sessions, logged_out,
                   short_urls, clicks, trigger, cache, unique_clicks, now, started,
                   deactivated>>

\* Redis drops a key whose expiry has come: the window of the key ends
KeyExpires(key) ==
    /\ key \in DOMAIN rate_limits
    /\ rate_limits[key].ttl
    /\ rate_limits' = [k \in DOMAIN rate_limits \ {key} |-> rate_limits[k]]
    /\ passed' = [k \in DOMAIN passed \ {key} |-> passed[k]]
    /\ UNCHANGED <<sessions, logged_out,
                   short_urls, clicks, trigger, cache, unique_clicks, now, calls, started,
                   deactivated>>

----------------------------------------------------------------------------
(* The cache service under concurrent requests *)

Keys == {"rate_limit:ip1", "rate_limit:ip2"}
IPs == {"ip1", "ip2"}

InitCache ==
    /\ short_urls = << >>
    /\ clicks = << >>
    /\ cache = << >>
    /\ unique_clicks = {}
    /\ trigger = FALSE
    /\ now = 0
    /\ calls = [p \in Slots |-> IdleCall]
    /\ started = 0
    /\ rate_limits = << >>
    /\ sessions = << >>
    /\ logged_out = {}
    /\ passed = << >>
    /\ deactivated = {}

NextCache ==
    \/ \E key \in Keys : KeyExpires(key)
    \/ \E p \in Slots :
        \/ \E ip \in IPs : CacheUniqueClick(p, 1, ip)
        \/ CacheUniqueClick_SAdd(p)
        \/ CacheUniqueClick_Expire(p)
        \/ \E key \in Keys, skip \in BOOLEAN : Handler(p, key, skip)
        \/ Handler_Incr(p)
        \/ Handler_Expire(p)

SpecCache == InitCache /\ [][NextCache]_vars

\* C16: among the CacheUniqueClick calls for one key and one IP address made
\* while the set has not expired, concurrent ones included, only the first
\* returns true: no two of them return true.
C16_OneFirstVisit ==
    \A p, q \in Slots :
        ( /\ p # q
          /\ calls[p].op = "unique" /\ calls[p].pc = "done"
          /\ calls[q].op = "unique" /\ calls[q].pc = "done"
          /\ calls[p].id = calls[q].id /\ calls[p].ip = calls[q].ip )
        => ~(calls[p].unique /\ calls[q].unique)

\* C17: for each rate-limit key at most RequestsPerWindow requests of one
\* window are handed to the next handler, also when requests of the key are
\* processed concurrently.
C17_AtMostLimitPass ==
    \A key \in DOMAIN passed : passed[key] <= RequestsPerWindow

----------------------------------------------------------------------------
(* Properties of deletion and of repeated resolution *)

\* C19: a resolution of a code that starts after DeleteURL by the owner has
\* returned nil for the record of the code ends with not-found.
C19_DeletedStaysNotFound ==
    \A p \in Slots :
        ( /\ calls[p].op \in {"get", "redirect"} /\ calls[p].pc = "done"
          /\ calls[p].after_delete )
        => calls[p].err = ErrShortURLNotFound

\* repeated resolution from a cold or a warm cache, next to activation and
\* deactivation of the records
ActivePatches == { [NoPatch EXCEPT !.IsActive = <<FALSE>>],
                   [NoPatch EXCEPT !.IsActive = <<TRUE>>] }

InitRepeat ==
    /\ short_urls = StoredURLs
    /\ clicks = << >>
    /\ cache \in { << >>,
                   CacheURL(CacheURL(<< >>, StoredURLs[1].ShortCode, "https://a", 1),
                            StoredURLs[2].ShortCode, "http://b", 1) }
    /\ unique_clicks = {}
    /\ trigger = FALSE
    /\ now = 0
    /\ calls = [p \in Slots |-> IdleCall]
    /\ started = 0
    /\ rate_limits = << >>
    /\ sessions = << >>
    /\ logged_out = {}
    /\ passed = << >>
    /\ deactivated = {}

NextRepeat ==
    \/ Tick
    \/ \E p \in Slots :
        \/ \E k \in RowIds(short_urls) : GetOriginalURL(p, short_urls[k].ShortCode)
        \/ GetOriginalURL_HitRead(p)
        \/ GetOriginalURL_Read(p)
        \/ GetOriginalURL_CacheURL(p)
        \/ \E id \in RowIds(short_urls), req \in ActivePatches : UpdateURL(p, id, 1, req)
        \/ UpdateURL_Save(p)
        \/ UpdateURL_Cache(p)

SpecRepeat == InitRepeat /\ [][NextRepeat]_vars

\* C20: two GetOriginalURL calls for the same code between whose store
\* reads the record was not changed and its expiry did not pass return the
\* same outcome and the same destination, whatever the cache did for them.
C20_RepeatedResolveAgrees ==
    \A p, q \in Slots :
        ( /\ calls[p].op = "get" /\ calls[p].pc = "done"
          /\ calls[q].op = "get" /\ calls[q].pc = "done"
          /\ calls[p].code = calls[q].code
          /\ calls[p].seen = calls[q].seen )
        => calls[p].rec = calls[q].rec /\ calls[p].err = calls[q].err

\* the first call missed the cache and wrote the entry back, the second was
\* served after a hit, and both returned the record
C20_Witness ==
    \E p, q \in Slots :
        /\ calls[p].op = "get" /\ calls[p].pc = "done" /\ calls[p].cached = "miss"
        /\ calls[q].op = "get" /\ calls[q].pc = "done" /\ calls[q].cached = "hit"
        /\ calls[p].code = calls[q].code
        /\ calls[p].code \in DOMAIN cache
        /\ calls[p].seen = calls[q].seen
        /\ calls[p].rec # NoRow /\ calls[q].rec = calls[p].rec

----------------------------------------------------------------------------
(* Updates and deletes by the owner and by another user *)

InitOwner ==
    /\ short_urls = StoredURLs
    /\ clicks = << >>
    /\ cache = CacheURL(CacheURL(<< >>, StoredURLs[1].ShortCode, "https://a", 1),
                        StoredURLs[2].ShortCode, "http://b", 1)
    /\ unique_clicks = {}
    /\ trigger = FALSE
    /\ now = 0
    /\ calls = [p \in Slots |-> IdleCall]
    /\ started = 0
    /\ rate_limits = << >>
    /\ sessions = << >>
    /\ logged_out = {}
    /\ passed = << >>
    /\ deactivated = {}

NextOwner ==
    \E p \in Slots :
        \/ \E id \in RowIds(short_urls), u \in Users, req \in Patches : UpdateURL(p, id, u, req)
        \/ UpdateURL_Save(p)
        \/ UpdateURL_Cache(p)
        \/ \E id \in RowIds(short_urls), u \in Users : DeleteURL(p, id, u)
        \/ DeleteURL_Delete(p)
        \/ DeleteURL_Invalidate(p)

SpecOwner == InitOwner /\ [][NextOwner]_vars

----------------------------------------------------------------------------
(* Properties of cache invalidation *)

\* no request is in flight
Quiet == \A p \in Slots : calls[p].pc \in {"idle", "done"}

\* C21: once a deactivating UpdateURL has returned and every call that
\* overlapped it has finished, the cache holds no url:{code} entry for the
\* record it deactivated.
C21_NoEntryAfterDeactivation ==
    Quiet =>
        \A id \in deactivated :
            ~short_urls[id].IsActive => short_urls[id].ShortCode \notin DOMAIN cache

----------------------------------------------------------------------------
(* Properties of the expiry sweep *)

\* C22: GetExpiredURLs returns only records whose expires_at has passed and
\* whose is_active is still true, and at most limit of them: every record a
\* sweep has listed was expired and active when it was listed.
C22_ListsActiveExpiredOnly ==
    \A p \in Slots :
        calls[p].op = "cleanup" =>
            /\ Len(calls[p].batch) <= expiredLimit
            /\ \A k \in 1..Len(calls[p].batch) :
                  /\ calls[p].batch[k].ExpiresAt # NULL
                  /\ calls[p].batch[k].ExpiresAt <= now
                  /\ calls[p].batch[k].IsActive

\* three stored records of user 1, all cached: two have expired at instant 1,
\* the third expires at instant 2
SweepURLs ==
    << [NewShortURL([NoReq EXCEPT !.OriginalURL = "https://a", !.UserID = 1,
                                  !.ExpiresAt = 1],
                    RandomCode) EXCEPT !.ID = 1],
       [NewShortURL([NoReq EXCEPT !.OriginalURL = "http://b", !.UserID = 1,
                                  !.ExpiresAt = 1],
                    <<"a", "b", "c">>) EXCEPT !.ID = 2],
       [NewShortURL([NoReq EXCEPT !.OriginalURL = "https://a", !.UserID = 1,
                                  !.ExpiresAt = 2],
                    <<"a", "b", "d">>) EXCEPT !.ID = 3] >>

InitSweep ==
    /\ short_urls = SweepURLs
    /\ clicks = << >>
    /\ cache = [code \in {SweepURLs[k].ShortCode : k \in 1..3} |->
                   [url |-> "https://a", user_id |-> 1]]
    /\ unique_clicks = {}
    /\ trigger = FALSE
    /\ now = 1
    /\ calls = [p \in Slots |-> IdleCall]
    /\ started = 0
    /\ rate_limits = << >>
    /\ sessions = << >>
    /\ logged_out = {}
    /\ passed = << >>
    /\ deactivated = {}

\* sweeps only, with a store whose Update may fail
NextSweep ==
    \E p \in Slots :
        \/ CleanupExpiredURLs(p)
        \/ CleanupExpiredURLs_Update(p)
        \/ CleanupExpiredURLs_UpdateFails(p)
        \/ CleanupExpiredURLs_Invalidate(p)

SpecSweep == InitSweep /\ [][NextSweep]_vars

\* the step of sweep p in which the Update of the record at hand fails
UpdateFailed(p) ==
    /\ At(p, "cleanup", "sweep")
    /\ calls'[p].failed # calls[p].failed

\* the step of sweep p in which the Update of the record at hand succeeds
UpdateSucceeded(p) ==
    /\ At(p, "cleanup", "sweep")
    /\ calls'[p] # calls[p]
    /\ calls'[p].failed = calls[p].failed

----------------------------------------------------------------------------
(* Frame of the writes of UpdateURL and of the sweep *)

\* C24: the write of UpdateURL changes only the fields its request carries:
\* a field absent from the patch, and the click count, keep the value the
\* store holds at the moment of the write, whatever was committed since this
\* call read the record.
C24_AbsentFieldsKeepStoreValue ==
    [][\A p \in Slots :
          ( /\ At(p, "update", "save")
            /\ calls'[p] # calls[p]
            /\ calls[p].id \in Live(short_urls) )
          => LET old == short_urls[calls[p].id]
                 new == short_urls'[calls[p].id]
                 patch == calls[p].patch
             IN  /\ patch.Title = << >> => new.Title = old.Title
                 /\ patch.IsActive = << >> => new.IsActive = old.IsActive
                 /\ patch.ExpiresAt = << >> => new.ExpiresAt = old.ExpiresAt
                 /\ new.ClickCount = old.ClickCount]_vars

\* C25: the write of the sweep deactivates only a record that is still
\* expired in the store at that moment, and it changes no other field: what
\* the owner's UpdateURL committed after the listing is neither deactivated
\* nor overwritten.
C25_SweepWritesOnlyStillExpired ==
    [][\A p \in Slots :
          ( /\ At(p, "cleanup", "sweep")
            /\ calls'[p] # calls[p]
            /\ Head(calls[p].batch).ID \in Live(short_urls) )
          => LET old == short_urls[Head(calls[p].batch).ID]
                 new == short_urls'[Head(calls[p].batch).ID]
             IN  /\ (old.ExpiresAt = NULL \/ old.ExpiresAt > now) => new = old
                 /\ new = [old EXCEPT !.IsActive = new.IsActive]]_vars

----------------------------------------------------------------------------
(* The sweep invoked again and again.  The table holds more expired records  *)
(* than one sweep lists, with the limit of 100 scaled down to SweepLimit;    *)
(* the store never fails.                                                    *)

\* the results the query may give: LIMIT without ORDER BY returns any limit
\* of the matching rows
ExpiredBatches(tbl, t, limit) ==
    LET hit == {k \in Live(tbl) : tbl[k].ExpiresAt # NULL /\ tbl[k].ExpiresAt <= t}
        n == IF Cardinality(hit) <= limit THEN Cardinality(hit) ELSE limit
    IN  {Rows(tbl, ids) : ids \in {s \in SUBSET hit : Cardinality(s) = n}}

\* one more invocation of CleanupExpiredURLs, as a periodic job makes it
CleanupExpiredURLs_Periodic(p, limit) ==
    /\ calls[p].pc \in {"idle", "done"}
    /\ \E expiredURLs \in ExpiredBatches(short_urls, now, limit) :
          Put(p, [IdleCall EXCEPT !.op = "cleanup", !.batch = expiredURLs,
                                  !.pc = IF expiredURLs = << >> THEN "done" ELSE "sweep"])
    /\ UNCHANGED <<sessions, logged_out, rate_limits, passed,
                   short_urls, clicks, trigger, cache, unique_clicks, now, started,
                   deactivated>>

NextPeriodic ==
    \/ Tick
    \/ \E p \in Slots :
        \/ CleanupExpiredURLs_Periodic(p, SweepLimit)
        \/ CleanupExpiredURLs_Update(p)
        \/ CleanupExpiredURLs_Invalidate(p)

\* every worker starts a sweep again and again, and a running sweep goes on
FairPeriodic ==
    \A p \in Slots :
        /\ WF_vars(CleanupExpiredURLs_Periodic(p, SweepLimit))
        /\ WF_vars(CleanupExpiredURLs_Update(p))
        /\ WF_vars(CleanupExpiredURLs_Invalidate(p))

SpecPeriodic == InitSweep /\ [][NextPeriodic]_vars /\ FairPeriodic

\* C26: with the sweep invoked again and again and a store that never fails,
\* every record that is expired and active is eventually deactivated, also
\* when more records have expired than one sweep lists.
C26_ExpiredEventuallyDeactivated ==
    \A k \in 1..3 :
        ( /\ short_urls[k].ExpiresAt # NULL
          /\ short_urls[k].ExpiresAt <= now
          /\ short_urls[k].IsActive )
        ~> ~short_urls[k].IsActive

----------------------------------------------------------------------------
(* The existence check against the unique constraint *)

\* requests served one after the other: a request starts only when no other
\* is in flight.  The table holds the alias "abc" of user 1.
NextSequential ==
    \E p \in Slots :
        \/ /\ Quiet
           /\ \/ \E req \in AliasRequests : CreateShortURL(p, req)
              \/ \E id \in RowIds(short_urls), u \in Users : DeleteURL(p, id, u)
        \/ generateUniqueShortCode_custom(p)
        \/ ShortenURL_Create(p)
        \/ ShortenURL_CacheURL(p)
        \/ DeleteURL_Delete(p)
        \/ DeleteURL_Invalidate(p)

SpecSequential == InitRedirect /\ [][NextSequential]_vars

\* C27: with no other request in flight, a Create for a code for which
\* ExistsByShortCode answers false succeeds: in particular the alias of a
\* record that DeleteURL has soft-deleted can be taken again.
C27_CheckAgreesWithConstraint ==
    [][\A p \in Slots :
          ( /\ At(p, "shorten", "create")
            /\ calls'[p] # calls[p]
            /\ \A q \in Slots \ {p} : calls[q].pc \in {"idle", "done"}
            /\ ~ExistsByShortCode(short_urls, calls[p].code) )
          => /\ calls'[p].pc = "cache"
             /\ ExistsByShortCode(short_urls', calls[p].code)]_vars

----------------------------------------------------------------------------
(* Properties of the rate-limit counters *)

\* C28: every rate-limit counter in the cache carries an expiry, except
\* during the moment in which the request that created it stands between its
\* INCR and its EXPIRE; a failed EXPIRE does not leave a counter without one.
C28_CounterCarriesExpiry ==
    \A key \in DOMAIN rate_limits :
        \/ rate_limits[key].ttl
        \/ \E p \in Slots : At(p, "limit", "expire") /\ calls[p].key = key

----------------------------------------------------------------------------
(* The chain of rate limiters a request passes: GlobalRateLimit on every     *)
(* route, then AuthRateLimit on the routes under /api/v1/auth                *)

GlobalRateLimit ==
    [name |-> "global", RequestsPerWindow |-> 1000, SkipPaths |-> {"/health", "/metrics"}]

AuthRateLimit ==
    [name |-> "auth", RequestsPerWindow |-> 5, SkipPaths |-> {}]

Paths == {"/health", "/abc", "/api/v1/auth/login"}

\* the middlewares installed in front of the handler of a path
Chain(path) ==
    IF path = "/api/v1/auth/login" THEN <<GlobalRateLimit, AuthRateLimit>>
    ELSE <<GlobalRateLimit>>

\* "rate_limit:%s" of the client address, whatever the limiter
defaultKeyGenerator(ip) ==
    CASE ip = "ip1" -> "rate_limit:ip1"
      [] ip = "ip2" -> "rate_limit:ip2"

\* the limiter at which request c stands
Limiter(c) == Chain(c.path)[c.i]

\* next.ServeHTTP(w, r): the next middleware of the chain, or the handler
ServeNext(c) ==
    IF c.i < Len(Chain(c.path))
    THEN [c EXCEPT !.i = @ + 1, !.pc = "check"]
    ELSE Serve(c)

\* history: key is counted once more by AuthRateLimit
CountAuth(h, c) == IF Limiter(c).name = "auth" THEN Count(h, c.key) ELSE h

\* a request arrives at the first middleware of its chain
Request(p, ip, path) ==
    /\ Free(p)
    /\ started' = started + 1
    /\ Put(p, [IdleCall EXCEPT !.op = "request", !.pc = "check", !.ip = ip,
                               !.path = path, !.key = defaultKeyGenerator(ip), !.i = 1])
    /\ UNCHANGED <<sessions, logged_out, rate_limits, passed,
                   short_urls, clicks, trigger, cache, unique_clicks, now, deactivated>>

\* Handler of the limiter at hand, up to IsRateLimited
Request_Check(p) ==
    /\ At(p, "request", "check")
    /\ LET c == calls[p]
           m == Limiter(c)
       IN  IF c.path \in m.SkipPaths
           THEN Put(p, ServeNext(c))
           ELSE \E ok \in BOOLEAN :
                  IF IsRateLimited(rate_limits, c.key, m.RequestsPerWindow, ok)
                  THEN Put(p, [c EXCEPT !.pc = "done", !.status = 429])
                  ELSE Put(p, [c EXCEPT !.pc = "incr"])
    /\ UNCHANGED <<sessions, logged_out, rate_limits, passed,
                   short_urls, clicks, trigger, cache, unique_clicks, now, started,
                   deactivated>>

\* IncrementRateLimit of the limiter at hand: INCR key
Request_Incr(p) ==
    /\ At(p, "request", "incr")
    /\ LET c == calls[p]
           count == Counter(rate_limits, c.key).count + 1
       IN  \E ok \in BOOLEAN :
             IF ~ok
             THEN /\ Put(p, ServeNext([c EXCEPT !.err = ErrRedis]))
                  /\ UNCHANGED <<rate_limits, passed>>
             ELSE /\ rate_limits' = SetCounter(rate_limits, c.key,
                                        [Counter(rate_limits, c.key) EXCEPT !.count = count])
                  /\ passed' = CountAuth(passed, c)
                  /\ Put(p, IF count = 1 THEN [c EXCEPT !.pc = "expire"] ELSE ServeNext(c))
    /\ UNCHANGED <<sessions, logged_out,
                   short_urls, clicks, trigger, cache, unique_clicks, now, started,
                   deactivated>>

\* EXPIRE key window after the increment that gave 1
Request_Expire(p) ==
    /\ At(p, "request", "expire")
    /\ LET c == calls[p]
       IN  \E ok \in BOOLEAN :
             IF ok
             THEN /\ rate_limits' = SetCounter(rate_limits, c.key,
                                        [Counter(rate_limits, c.key) EXCEPT !.ttl = TRUE])
                  /\ Put(p, ServeNext(c))
             ELSE /\ UNCHANGED rate_limits
                  /\ Put(p, ServeNext([c EXCEPT !.err = Wrap("failed to set expiration",
                                                             ErrRedis)]))
    /\ UNCHANGED <<sessions, logged_out, passed,
                   short_urls, clicks, trigger, cache, unique_clicks, now, started,
                   deactivated>>

NextLimiters ==
    \/ \E key \in Keys : KeyExpires(key)
    \/ \E p \in Slots :
        \/ \E ip \in IPs, path \in Paths : Request(p, ip, path)
        \/ Request_Check(p)
        \/ Request_Incr(p)
        \/ Request_Expire(p)

SpecLimiters == InitCache /\ [][NextLimiters]_vars

\* C29: AuthRateLimit counts on its own: it answers 429 to a request of an
\* address only when it has counted its own quota of requests of that
\* address in the window; what GlobalRateLimit counted does not use up the
\* quota of the auth routes.
C29_AuthQuotaIsItsOwn ==
    [][\A p \in Slots :
          ( /\ At(p, "request", "check")
            /\ Limiter(calls[p]).name = "auth"
            /\ calls'[p].status = 429 )
          => Passed(passed, calls[p].key) >= AuthRateLimit.RequestsPerWindow]_vars

----------------------------------------------------------------------------
(* authService: Login, RefreshToken and Logout over the session keys of the  *)
(* cache.  The JWT service is an interface here: a refresh token is its      *)
(* claims, a serial that makes it distinct, and whether its signature holds. *)

ErrInvalidCredentials == <<"invalid credentials">>
ErrInvalidToken == <<"invalid token">>
ErrUserInactive == <<"user account is inactive">>

\* the users table: both users exist and are active
AuthUsers == [u \in Users |-> [ID |-> u, IsActive |-> TRUE]]

GenerateRefreshToken(userID, n) == [UserID |-> userID, Serial |-> n, Signed |-> TRUE]

\* a token that the service never signed
ForgedToken == [UserID |-> 1, Serial |-> 0, Signed |-> FALSE]

\* SET session:{token} userID
SetSession(ss, token, userID) ==
    [t \in DOMAIN ss \cup {token} |-> IF t = token THEN userID ELSE ss[t]]

\* the tokens a client can present: those handed out so far, and a forged one
Presentable == DOMAIN sessions \cup logged_out \cup {ForgedToken}

\* Login up to GenerateRefreshToken; valid tells whether the credentials match
Login(p, userID, valid) ==
    /\ Free(p)
    /\ started' = started + 1
    /\ LET c == [IdleCall EXCEPT !.op = "login", !.uid = userID]
       IN  IF ~valid
           THEN Put(p, [c EXCEPT !.pc = "done", !.err = ErrInvalidCredentials])
           ELSE IF ~AuthUsers[userID].IsActive
           THEN Put(p, [c EXCEPT !.pc = "done", !.err = ErrUserInactive])
           ELSE Put(p, [c EXCEPT !.pc = "session",
                                 !.token = GenerateRefreshToken(userID, started + 1)])
    /\ UNCHANGED <<sessions, logged_out, rate_limits, passed,
                   short_urls, clicks, trigger, cache, unique_clicks, now, deactivated>>

\* SetSession of the new refresh token: its failure fails the call
Login_SetSession(p) ==
    /\ \/ At(p, "login", "session")
       \/ At(p, "refresh", "store")
    /\ LET c == calls[p]
       IN  \E ok \in BOOLEAN :
             IF ok
             THEN /\ sessions' = SetSession(sessions, c.token, c.uid)
                  /\ Put(p, [c EXCEPT !.pc = "done", !.err = nil])
             ELSE /\ UNCHANGED sessions
                  /\ Put(p, [c EXCEPT !.pc = "done",
                                      !.err = Wrap("failed to store refresh token", ErrRedis)])
    /\ UNCHANGED <<logged_out, rate_limits, passed,
                   short_urls, clicks, trigger, cache, unique_clicks, now, started,
                   deactivated>>

\* RefreshToken up to ValidateRefreshToken
RefreshToken(p, refreshToken) ==
    /\ Free(p)
    /\ started' = started + 1
    /\ LET c == [IdleCall EXCEPT !.op = "refresh", !.token = refreshToken,
                                 !.i = started + 1,
                                 !.after_logout = refreshToken \in logged_out]
       IN  IF ~refreshToken.Signed
           THEN Put(p, [c EXCEPT !.pc = "done", !.err = ErrInvalidToken])
           ELSE Put(p, [c EXCEPT !.pc = "session", !.uid = refreshToken.UserID])
    /\ UNCHANGED <<sessions, logged_out, rate_limits, passed,
                   short_urls, clicks, trigger, cache, unique_clicks, now, deactivated>>

\* GetSession, then the user is read and the new tokens are generated
RefreshToken_GetSession(p) ==
    /\ At(p, "refresh", "session")
    /\ LET c == calls[p]
       IN  \E ok \in BOOLEAN :
             IF ~ok \/ c.token \notin DOMAIN sessions
             THEN Put(p, [c EXCEPT !.pc = "done", !.err = ErrInvalidToken])
             ELSE IF sessions[c.token] # c.uid
             THEN Put(p, [c EXCEPT !.pc = "done", !.err = ErrInvalidToken])
             ELSE IF ~AuthUsers[c.uid].IsActive
             THEN Put(p, [c EXCEPT !.pc = "done", !.err = ErrUserInactive])
             ELSE Put(p, [c EXCEPT !.pc = "store", !.rec = c.token,
                                   !.token = GenerateRefreshToken(c.uid, c.i)])
    /\ UNCHANGED <<sessions, logged_out, rate_limits, passed,
                   short_urls, clicks, trigger, cache, unique_clicks, now, started,
                   deactivated>>

\* Logout returns nil and touches nothing
Logout(p, userID) ==
    /\ Free(p)
    /\ started' = started + 1
    /\ Put(p, [IdleCall EXCEPT !.op = "logout", !.pc = "done", !.uid = userID])
    /\ logged_out' = logged_out \cup {t \in DOMAIN sessions : t.UserID = userID}
    /\ UNCHANGED <<sessions, rate_limits, passed,
                   short_urls, clicks, trigger, cache, unique_clicks, now, deactivated>>

\* Redis drops a session key after its seven days
SessionExpires(token) ==
    /\ token \in DOMAIN sessions
    /\ sessions' = [t \in DOMAIN sessions \ {token} |-> sessions[t]]
    /\ UNCHANGED <<logged_out, rate_limits, passed,
                   short_urls, clicks, trigger, cache, unique_clicks, now, calls, started,
                   deactivated>>

NextAuth ==
    \/ \E token \in DOMAIN sessions : SessionExpires(token)
    \/ \E p \in Slots :
        \/ \E u \in Users, valid \in BOOLEAN : Login(p, u, valid)
        \/ Login_SetSession(p)
        \/ \E t \in Presentable : RefreshToken(p, t)
        \/ RefreshToken_GetSession(p)
        \/ \E u \in Users : Logout(p, u)

SpecAuth == InitCache /\ [][NextAuth]_vars

\* C30: RefreshToken accepts a token only when a session entry for it exists
\* and holds the user of its claims, and never a token that was issued to a
\* user before a Logout of that user returned.
C30_NoRefreshAfterLogout ==
    [][\A p \in Slots :
          ( /\ At(p, "refresh", "session")
            /\ calls'[p].pc = "store" )
          => /\ calls[p].token \in DOMAIN sessions
             /\ sessions[calls[p].token] = calls[p].token.UserID
             /\ ~calls[p].after_logout]_vars

====
